---- MODULE Spec2Model ----
(***************************************************************************)
(* SafeGuard backup scheduler (server.ts): the backup_tasks and            *)
(* backup_logs tables, the runBackup lifecycle, the once-a-minute cron     *)
(* callback and the HTTP handlers that create, delete and run tasks.       *)
(*                                                                         *)
(* Node runs one handler at a time, so every action below is one           *)
(* synchronous stretch of code: runBackup runs from its call to its        *)
(* `await` inside the handler that called it, and from the timer firing    *)
(* to its return as a step of its own.                                     *)
(***************************************************************************)
EXTENDS Integers, Sequences, FiniteSets, TLC

(* ------------------------------ bounds -------------------------------- *)
\* requests to POST /api/tasks that are let through (ids 1..MaxTaskId)
MaxTaskId == 2
\* the same, where only the scheduler and the timers are followed (SchedulerSpec)
MaxScheduled == 3
\* calls of runBackup that are let through
MaxRuns == 2
\* minutes the cron callback is followed for
MaxTicks == 2
\* calls of runBackup and of the cron callback in which the store throws, and
\* restarts of the process
MaxFailures == 1

(* ------------------------------ the clock ----------------------------- *)
MinutesPerHour == 60 * 1
MinutesPerDay == 24 * 60
\* the process is started at 08:59 local time on a Monday or on a Tuesday
\* (minutes since Sunday 00:00)
BootTimes == { d * MinutesPerDay + 8 * MinutesPerHour + 59 : d \in {1, 2} }

\* Date.prototype.toLocaleDateString('en-US', {weekday: 'long'}), Sunday first
WeekdayLong == <<"Sunday", "Monday", "Tuesday", "Wednesday", "Thursday", "Friday", "Saturday">>
Digit == <<"0", "1", "2", "3", "4", "5", "6", "7", "8", "9">>
Pad2(n) == Digit[(n \div 10) + 1] \o Digit[(n % 10) + 1]

\* server.ts:156  now.toLocaleDateString('en-US', { weekday: 'long' })
CurrentDay(t) == WeekdayLong[((t \div MinutesPerDay) % 7) + 1]
\* server.ts:157  now.toTimeString().slice(0, 5)
CurrentTime(t) ==
    Pad2((t % MinutesPerDay) \div MinutesPerHour) \o ":" \o Pad2(t % MinutesPerHour)

(* ------------------------------ JSON ---------------------------------- *)
\* a JavaScript value of a request body: an array of strings or null
JsNull == [type |-> "null"]
JsArray(items) == [type |-> "array", items |-> items]

RECURSIVE JoinQuoted(_)
JoinQuoted(items) ==
    IF items = <<>> THEN ""
    ELSE IF Len(items) = 1 THEN "\"" \o Head(items) \o "\""
    ELSE "\"" \o Head(items) \o "\"," \o JoinQuoted(Tail(items))

\* JSON.stringify(schedule_days), server.ts:197
JSONstringify(v) ==
    IF v.type = "null" THEN "null" ELSE "[" \o JoinQuoted(v.items) \o "]"

(* ------------------------------ requests ------------------------------ *)
\* the bodies sent to POST /api/tasks
TaskBodies ==
    { [name |-> "docs", source_path |-> "/home/docs", destination_path |-> "/mnt/nas",
       destination_type |-> "NAS", backup_type |-> "FULL",
       schedule_days |-> JsArray(<<"Monday">>), schedule_time |-> "09:00",
       email_notifications |-> TRUE],
      [name |-> "raw", source_path |-> "/srv/raw", destination_path |-> "/mnt/nas",
       destination_type |-> "NAS", backup_type |-> "FULL",
       schedule_days |-> JsNull, schedule_time |-> "09:00",
       email_notifications |-> FALSE] }

\* App.tsx:58, the names on the buttons of the day picker
DAYS == <<"Segunda-feira", "Terça-feira", "Quarta-feira", "Quinta-feira",
          "Sexta-feira", "Sábado", "Domingo">>
\* the bodies the task form sends (App.tsx createTask): formData with the days
\* picked, in the order they were picked, and the time of the time input
FormBodies ==
    { [name |-> "fotos", source_path |-> "/home/fotos", destination_path |-> "/mnt/nas",
       destination_type |-> "NAS", backup_type |-> "FULL",
       schedule_days |-> JsArray([i \in 1..Len(picked) |-> DAYS[picked[i]]]),
       schedule_time |-> "09:00", email_notifications |-> TRUE]
      : picked \in {<<1>>, <<3, 1>>} }

\* the JSON documents the schedule_days column can hold, with the value each parses to
ScheduleValues == { b.schedule_days : b \in TaskBodies \cup FormBodies }
\* JSON.parse(text), server.ts:161
JSONparse(text) == CHOOSE v \in ScheduleValues : JSONstringify(v) = text

\* Array.prototype.includes, server.ts:162
Includes(items, x) == \E i \in 1..Len(items) : items[i] = x

(* ------------------------------ state --------------------------------- *)
VARIABLES
    tasks,         \* table backup_tasks: id -> row
    task_seq,      \* AUTOINCREMENT high-water mark of backup_tasks
    logs,          \* table backup_logs, in insertion order
    runs,          \* the calls of runBackup, in call order
    mails,         \* the notification lines written so far
    now,           \* wall clock, minutes since Sunday 00:00
    ticks,         \* the minutes the cron callback has run for
    foreign_keys,  \* whether the SQLite build enforces FOREIGN KEY
    failures       \* calls of runBackup and of the cron callback that threw, and
                   \* restarts, so far

vars == <<tasks, task_seq, logs, runs, mails, now, ticks, foreign_keys, failures>>

\* SQL NULL in the last_run column
NullTime == 0 - 1
\* the report column: SQL NULL, or a text
NullReport == [null |-> TRUE]
Text(s) == [null |-> FALSE, text |-> s]

Init ==
    /\ tasks = <<>>
    /\ task_seq = 0
    /\ logs = <<>>
    /\ runs = <<>>
    /\ mails = <<>>
    /\ now \in BootTimes
    /\ ticks = 0
    /\ foreign_keys \in BOOLEAN
    /\ failures = 0

(* ------------------------------ the store ----------------------------- *)
\* the part of the state a handler works on
Store(t, l, r, m) == [tasks |-> t, logs |-> l, runs |-> r, mails |-> m]

\* a store write that throws: the line of the write (0: none throws) and whether
\* the UPDATE of the catch block (line 147) goes through
NoFault == [at |-> 0, reset |-> TRUE]
Faults(lines) == {NoFault} \cup [at : lines, reset : BOOLEAN]

\* a variant without the WHERE clause
UpdateStatus_EveryRow(t, id, status) ==
    [i \in DOMAIN t |-> [t[i] EXCEPT !.status = status]]

\* UPDATE backup_tasks SET status = ? WHERE id = ?  (no row: no change)
UpdateStatus(t, id, status) ==
    IF id \in DOMAIN t THEN [t EXCEPT ![id].status = status] ELSE t

\* a variant that writes the row back when it is gone (INSERT OR REPLACE)
UpdateIdleLastRun_Upsert(t, id, time) ==
    LET row == [id |-> id, name |-> "", source_path |-> "", destination_path |-> "",
                destination_type |-> "NAS", backup_type |-> "FULL",
                schedule_days |-> "null", schedule_time |-> "00:00",
                last_run |-> time, status |-> "IDLE", email_notifications |-> 1]
    IN  [i \in DOMAIN t \cup {id} |->
           IF i \in DOMAIN t
           THEN IF i = id THEN [t[i] EXCEPT !.status = "IDLE", !.last_run = time] ELSE t[i]
           ELSE row]

\* a variant that resets the status and leaves last_run as it was
UpdateIdleLastRun_StatusOnly(t, id, time) == UpdateStatus(t, id, "IDLE")

\* UPDATE backup_tasks SET status = 'IDLE', last_run = CURRENT_TIMESTAMP WHERE id = ?
UpdateIdleLastRun(t, id, time) ==
    IF id \in DOMAIN t
    THEN [t EXCEPT ![id].status = "IDLE", ![id].last_run = time]
    ELSE t

\* a FOREIGN KEY(task_id) REFERENCES backup_tasks(id) violation on INSERT
ForeignKeyFails(t, fk, id) == fk /\ id \notin DOMAIN t

\* a variant that writes no report
InsertLog_NoReport(l, id, status, message, report, time, run) ==
    Append(l, [id |-> Len(l) + 1, task_id |-> id, timestamp |-> time,
               status |-> status, message |-> message, report |-> NullReport,
               run |-> run])

\* a variant that writes the terminal row of a run over its INICIADO row
InsertLog_OverStarted(l, id, status, message, report, time, run) ==
    LET row == [id |-> Len(l) + 1, task_id |-> id, timestamp |-> time,
                status |-> status, message |-> message, report |-> report,
                run |-> run]
        own == { i \in 1..Len(l) : l[i].run = run }
    IN  IF own = {} THEN Append(l, row)
        ELSE [i \in 1..Len(l) |-> IF i \in own THEN [row EXCEPT !.id = l[i].id] ELSE l[i]]

\* a variant that writes the terminal row of a failed run twice
InsertLog_FailureTwice(l, id, status, message, report, time, run) ==
    LET row == [id |-> Len(l) + 1, task_id |-> id, timestamp |-> time,
                status |-> status, message |-> message, report |-> report,
                run |-> run]
    IN  IF status = "FALHA"
        THEN Append(Append(l, row), [row EXCEPT !.id = Len(l) + 2])
        ELSE Append(l, row)

\* INSERT INTO backup_logs: id AUTOINCREMENT, timestamp DEFAULT CURRENT_TIMESTAMP;
\* `run` is not a column: it records which call of runBackup wrote the row
InsertLog(l, id, status, message, report, time, run) ==
    Append(l, [id |-> Len(l) + 1, task_id |-> id, timestamp |-> time,
               status |-> status, message |-> message, report |-> report,
               run |-> run])

(* ------------------------------ runBackup ----------------------------- *)
\* a variant that marks every file OK whatever the outcome
MockFiles_AllOk(success) ==
    << [name |-> "documento_v1.pdf", size |-> "2.4MB", status |-> "OK"],
       [name |-> "planilha_financeira.xlsx", size |-> "1.1MB", status |-> "OK"],
       [name |-> "foto_backup.jpg", size |-> "4.8MB", status |-> "OK"],
       [name |-> "projeto_final.zip", size |-> "156MB", status |-> "OK"] >>

\* the simulated file report of a run
MockFiles(success) ==
    << [name |-> "documento_v1.pdf", size |-> "2.4MB", status |-> "OK"],
       [name |-> "planilha_financeira.xlsx", size |-> "1.1MB", status |-> "OK"],
       [name |-> "foto_backup.jpg", size |-> "4.8MB",
        status |-> IF success THEN "OK" ELSE "ERRO"],
       [name |-> "projeto_final.zip", size |-> "156MB",
        status |-> IF success THEN "OK" ELSE "ERRO"] >>

\* JSON.stringify(mockFiles), server.ts:127
RECURSIVE JoinFiles(_)
JoinFiles(files) ==
    IF files = <<>> THEN ""
    ELSE "{\"name\":\"" \o Head(files).name \o "\",\"size\":\"" \o Head(files).size
         \o "\",\"status\":\"" \o Head(files).status \o "\"}"
         \o (IF Len(files) = 1 THEN "" ELSE "," \o JoinFiles(Tail(files)))
JSONstringifyFiles(files) == "[" \o JoinFiles(files) \o "]"

\* the fields of the `task` argument that runBackup reads
Snapshot(row) ==
    [id |-> row.id, name |-> row.name, source_path |-> row.source_path,
     destination_path |-> row.destination_path,
     destination_type |-> row.destination_type,
     email_notifications |-> row.email_notifications]

\* the catch block: UPDATE status = 'IDLE', its own error swallowed
Catch(t, id, fault) == IF fault.reset THEN UpdateStatus(t, id, "IDLE") ELSE t

\* a call of runBackup, as far as it has got; origin: the caller, the cron
\* callback ("cron") or the run route ("manual")
Run(task, origin, time, pc, outcome) ==
    [task |-> task, origin |-> origin, start |-> time, pc |-> pc, outcome |-> outcome]

\* a variant that notifies the start of a run whatever the flag of the task
RunBackupStart_NotifiesAlways(st, fk, task, origin, fault, time) ==
    LET r == Len(st.runs) + 1
        caught(t) ==
            [st EXCEPT !.tasks = Catch(t, task.id, fault),
                       !.runs = Append(@, Run(task, origin, time, "caught", "none"))]
        running == UpdateStatus(st.tasks, task.id, "RUNNING")
    IN  IF fault.at = 98 THEN caught(st.tasks)
        ELSE IF fault.at = 101 \/ ForeignKeyFails(running, fk, task.id)
        THEN caught(running)
        ELSE [st EXCEPT
                !.tasks = running,
                !.logs = InsertLog(@, task.id, "INICIADO",
                                   <<"iniciado", task.source_path>>, NullReport, time, r),
                !.mails = Append(@, [run |-> r, task |-> task.id, kind |-> "INICIADO"]),
                !.runs = Append(@, Run(task, origin, time, "work", "none"))]

\* runBackup(task) from the call to the await of the work step
RunBackupStart(st, fk, task, origin, fault, time) ==
    LET r == Len(st.runs) + 1
        caught(t) ==
            [st EXCEPT !.tasks = Catch(t, task.id, fault),
                       !.runs = Append(@, Run(task, origin, time, "caught", "none"))]
        running == UpdateStatus(st.tasks, task.id, "RUNNING")
    IN  IF fault.at = 98 THEN caught(st.tasks)
        ELSE IF fault.at = 101 \/ ForeignKeyFails(running, fk, task.id)
        THEN caught(running)
        ELSE [st EXCEPT
                !.tasks = running,
                !.logs = InsertLog(@, task.id, "INICIADO",
                                   <<"iniciado", task.source_path>>, NullReport, time, r),
                !.mails = IF task.email_notifications # 0
                          THEN Append(@, [run |-> r, task |-> task.id, kind |-> "INICIADO"])
                          ELSE @,
                !.runs = Append(@, Run(task, origin, time, "work", "none"))]

\* a variant that resets the task before it writes the terminal row
RunBackupFinish_IdleFirst(st, fk, r, success, fault, time) ==
    LET task == st.runs[r].task
        status == IF success THEN "SUCESSO" ELSE "FALHA"
        message == IF success
                   THEN <<"concluido", task.destination_path>>
                   ELSE <<"falha", task.destination_type, task.destination_path>>
        report == Text(JSONstringifyFiles(MockFiles(success)))
        logged == InsertLog(st.logs, task.id, status, message, report, time, r)
        idle == UpdateIdleLastRun(st.tasks, task.id, time)
    IN  IF fault.at = 136
        THEN [st EXCEPT !.tasks = Catch(@, task.id, fault),
                        !.runs = [@ EXCEPT ![r].pc = "caught"]]
        ELSE IF fault.at = 129 \/ ForeignKeyFails(st.tasks, fk, task.id)
        THEN [st EXCEPT !.tasks = Catch(idle, task.id, fault),
                        !.runs = [@ EXCEPT ![r].pc = "caught"]]
        ELSE [st EXCEPT
                !.logs = logged,
                !.tasks = idle,
                !.mails = IF task.email_notifications # 0
                          THEN @ \o <<[run |-> r, task |-> task.id, kind |-> status]>>
                                 \o (IF success
                                     THEN <<[run |-> r, task |-> task.id, kind |-> "RELATORIO"]>>
                                     ELSE <<>>)
                          ELSE @,
                !.runs = [@ EXCEPT ![r].pc = "done", ![r].outcome = status]]

\* runBackup from the timer of the work step to its return
RunBackupFinish(st, fk, r, success, fault, time) ==
    LET task == st.runs[r].task
        status == IF success THEN "SUCESSO" ELSE "FALHA"
        message == IF success
                   THEN <<"concluido", task.destination_path>>
                   ELSE <<"falha", task.destination_type, task.destination_path>>
        report == Text(JSONstringifyFiles(MockFiles(success)))
        logged == InsertLog(st.logs, task.id, status, message, report, time, r)
        caught(l) ==
            [st EXCEPT !.logs = l,
                       !.tasks = Catch(@, task.id, fault),
                       !.runs = [@ EXCEPT ![r].pc = "caught"]]
    IN  IF fault.at = 129 \/ ForeignKeyFails(st.tasks, fk, task.id)
        THEN caught(st.logs)
        ELSE IF fault.at = 136 THEN caught(logged)
        ELSE [st EXCEPT
                !.logs = logged,
                !.tasks = UpdateIdleLastRun(@, task.id, time),
                !.mails = IF task.email_notifications # 0
                          THEN @ \o <<[run |-> r, task |-> task.id, kind |-> status]>>
                                 \o (IF success
                                     THEN <<[run |-> r, task |-> task.id, kind |-> "RELATORIO"]>>
                                     ELSE <<>>)
                          ELSE @,
                !.runs = [@ EXCEPT ![r].pc = "done", ![r].outcome = status]]

(* ------------------------------ the scheduler ------------------------- *)
\* the rows of SELECT * FROM backup_tasks, in rowid order
RECURSIVE SelectAll(_, _)
SelectAll(t, from) ==
    IF \A id \in DOMAIN t : id < from THEN <<>>
    ELSE IF from \in DOMAIN t THEN <<t[from]>> \o SelectAll(t, from + 1)
    ELSE SelectAll(t, from + 1)

\* task.schedule_days || "[]"
OrEmptyArray(text) == IF text = "" THEN "[]" ELSE text

\* the forEach callback up to its condition, for one row: "throws" when
\* days.includes is not callable, else whether the row is due
Evaluate(row, day, time) ==
    LET days == JSONparse(OrEmptyArray(row.schedule_days))
    IN  IF days.type # "array" THEN "throws"
        ELSE IF Includes(days.items, day) /\ row.schedule_time = time THEN "due"
        ELSE "skip"

\* a variant in which a store write that throws in runBackup leaves runBackup
\* and ends the loop
RECURSIVE ForEach_RunErrorEndsLoop(_, _, _, _, _)
ForEach_RunErrorEndsLoop(rows, st, fk, faults, time) ==
    IF rows = <<>> THEN st
    ELSE LET row == Head(rows)
             verdict == Evaluate(row, CurrentDay(time), CurrentTime(time))
             started == RunBackupStart(st, fk, Snapshot(row), "cron", faults[row.id], time)
         IN  IF verdict = "throws" THEN st
             ELSE IF verdict = "due" /\ started.runs[Len(started.runs)].pc = "caught"
             THEN started
             ELSE IF verdict = "due"
             THEN ForEach_RunErrorEndsLoop(Tail(rows), started, fk, faults, time)
             ELSE ForEach_RunErrorEndsLoop(Tail(rows), st, fk, faults, time)

\* tasks.forEach(...): an exception of the callback ends the loop
RECURSIVE ForEach(_, _, _, _, _)
ForEach(rows, st, fk, faults, time) ==
    IF rows = <<>> THEN st
    ELSE LET row == Head(rows)
             verdict == Evaluate(row, CurrentDay(time), CurrentTime(time))
         IN  IF verdict = "throws" THEN st
             ELSE IF verdict = "due"
             THEN ForEach(Tail(rows),
                          RunBackupStart(st, fk, Snapshot(row), "cron", faults[row.id], time),
                          fk, faults, time)
             ELSE ForEach(Tail(rows), st, fk, faults, time)

\* a variant that first sets every task IDLE
Scheduler_ResetsStatus(st, fk, readThrows, faults, time) ==
    IF readThrows THEN st
    ELSE LET idle == [st EXCEPT !.tasks = [i \in DOMAIN @ |-> [@[i] EXCEPT !.status = "IDLE"]]]
         IN  ForEach(SelectAll(idle.tasks, 1), idle, fk, faults, time)

\* a variant that evaluates nothing while a run is in its work step
Scheduler_WaitsForRuns(st, fk, readThrows, faults, time) ==
    IF readThrows \/ \E r \in DOMAIN st.runs : st.runs[r].pc = "work" THEN st
    ELSE ForEach(SelectAll(st.tasks, 1), st, fk, faults, time)

\* the cron callback at `time`; readThrows: the SELECT throws
Scheduler(st, fk, readThrows, faults, time) ==
    IF readThrows THEN st
    ELSE ForEach(SelectAll(st.tasks, 1), st, fk, faults, time)

(* ------------------------------ the routes ---------------------------- *)
\* a variant whose ids are one more than the greatest id stored (a rowid
\* without AUTOINCREMENT)
PostTasks_MaxRowidPlusOne(t, seq, body, throws) ==
    IF throws
    THEN [tasks |-> t, task_seq |-> seq, status |-> 500, id |-> 0]
    ELSE LET id == Cardinality({ i \in 1..seq : \E j \in DOMAIN t : j >= i }) + 1
             row == [id |-> id, name |-> body.name,
                     source_path |-> body.source_path,
                     destination_path |-> body.destination_path,
                     destination_type |-> body.destination_type,
                     backup_type |-> body.backup_type,
                     schedule_days |-> JSONstringify(body.schedule_days),
                     schedule_time |-> body.schedule_time,
                     last_run |-> NullTime,
                     status |-> "IDLE",
                     email_notifications |-> IF body.email_notifications THEN 1 ELSE 0]
         IN  [tasks |-> [i \in DOMAIN t \cup {id} |-> IF i = id THEN row ELSE t[i]],
              task_seq |-> id, status |-> 200, id |-> id]

\* POST /api/tasks: the tables and the response
PostTasks(t, seq, body, throws) ==
    IF throws
    THEN [tasks |-> t, task_seq |-> seq, status |-> 500, id |-> 0]
    ELSE LET id == seq + 1
             row == [id |-> id, name |-> body.name,
                     source_path |-> body.source_path,
                     destination_path |-> body.destination_path,
                     destination_type |-> body.destination_type,
                     backup_type |-> body.backup_type,
                     schedule_days |-> JSONstringify(body.schedule_days),
                     schedule_time |-> body.schedule_time,
                     last_run |-> NullTime,
                     status |-> "IDLE",
                     email_notifications |-> IF body.email_notifications THEN 1 ELSE 0]
         IN  [tasks |-> [i \in DOMAIN t \cup {id} |-> IF i = id THEN row ELSE t[i]],
              task_seq |-> id, status |-> 200, id |-> id]

\* DELETE /api/tasks/:id: the table and the response
DeleteTasksId(t, l, fk, id, throws) ==
    IF throws \/ (fk /\ \E i \in 1..Len(l) : l[i].task_id = id)
    THEN [tasks |-> t, status |-> 500]
    ELSE [tasks |-> [i \in DOMAIN t \ {id} |-> t[i]], status |-> 200]

\* a variant that answers success whether or not the lookup found a row
PostTasksIdRun_AlwaysSuccess(st, fk, id, lookupThrows, fault, time) ==
    IF lookupThrows THEN [st |-> st, status |-> 500]
    ELSE IF id \in DOMAIN st.tasks
    THEN [st |-> RunBackupStart(st, fk, Snapshot(st.tasks[id]), "manual", fault, time),
          status |-> 200]
    ELSE [st |-> st, status |-> 200]

\* GET /api/logs. CURRENT_TIMESTAMP counts whole seconds: two rows have the
\* same timestamp when they are written within one second, as the INICIADO
\* rows of the runs one cron callback starts are, and the terminal rows of
\* those runs, whose timers are armed together. (Rows of requested runs are
\* taken to be written in seconds of their own.)
SameSecond(a, b, rs) ==
    /\ rs[a.run].origin = "cron" /\ rs[b.run].origin = "cron"
    /\ rs[a.run].start = rs[b.run].start
    /\ (a.status = "INICIADO") = (b.status = "INICIADO")
\* ORDER BY l.timestamp DESC puts a before b
SortsBefore(a, b, rs) == a.id > b.id /\ ~SameSecond(a, b, rs)
\* FROM backup_logs l JOIN backup_tasks t ON l.task_id = t.id
JoinTasks(l, t) ==
    LET kept == SelectSeq(l, LAMBDA row : row.task_id \in DOMAIN t)
    IN  [i \in 1..Len(kept) |->
           [id |-> kept[i].id, task_id |-> kept[i].task_id,
            timestamp |-> kept[i].timestamp, status |-> kept[i].status,
            message |-> kept[i].message, report |-> kept[i].report,
            run |-> kept[i].run, task_name |-> t[kept[i].task_id].name]]
LogsLimit == 50
\* the arrays the route can answer with: rows of equal timestamp come in an
\* order SQL leaves open
GetLogs(l, t, rs) ==
    LET rows == JoinTasks(l, t)
        n == Len(rows)
        orders == { p \in [1..n -> 1..n] :
                      /\ \A i, j \in 1..n : i # j => p[i] # p[j]
                      /\ \A i, j \in 1..n :
                            i < j => ~SortsBefore(rows[p[j]], rows[p[i]], rs) }
    IN  { [i \in 1..(IF n < LogsLimit THEN n ELSE LogsLimit) |-> rows[p[i]]] : p \in orders }

\* a variant that answers 500 when a store write of the run it started throws
PostTasksIdRun_SurfacesRunError(st, fk, id, lookupThrows, fault, time) ==
    IF lookupThrows THEN [st |-> st, status |-> 500]
    ELSE IF id \in DOMAIN st.tasks
    THEN [st |-> RunBackupStart(st, fk, Snapshot(st.tasks[id]), "manual", fault, time),
          status |-> IF fault.at = 0 THEN 200 ELSE 500]
    ELSE [st |-> st, status |-> 404]

\* a variant that turns a request away while the task is RUNNING
PostTasksIdRun_Busy(st, fk, id, lookupThrows, fault, time) ==
    IF lookupThrows THEN [st |-> st, status |-> 500]
    ELSE IF id \in DOMAIN st.tasks /\ st.tasks[id].status = "RUNNING"
    THEN [st |-> st, status |-> 409]
    ELSE IF id \in DOMAIN st.tasks
    THEN [st |-> RunBackupStart(st, fk, Snapshot(st.tasks[id]), "manual", fault, time),
          status |-> 200]
    ELSE [st |-> st, status |-> 404]

\* POST /api/tasks/:id/run: the store and the response
PostTasksIdRun(st, fk, id, lookupThrows, fault, time) ==
    IF lookupThrows THEN [st |-> st, status |-> 500]
    ELSE IF id \in DOMAIN st.tasks
    THEN [st |-> RunBackupStart(st, fk, Snapshot(st.tasks[id]), "manual", fault, time),
          status |-> 200]
    ELSE [st |-> st, status |-> 404]

(* ------------------------------ actions ------------------------------- *)
\* the pause of the work step and the period of the cron pattern
WorkMillis == 4000
TickMillis == 60 * 1000
\* the timer of a run has certainly fired before the cron callback of `minute`
\* runs: the cron callback starts its runs on the minute, a request comes at any
\* time within its minute
TimerOverdue(run, minute) ==
    IF run.origin = "cron"
    THEN (minute - run.start) * TickMillis > WorkMillis
    ELSE (minute - run.start - 1) * TickMillis >= WorkMillis

InFlight(rs) == { r \in DOMAIN rs : rs[r].pc = "work" }
Caught(rs) == { r \in DOMAIN rs : rs[r].pc = "caught" }

\* the store as it stands
Current == Store(tasks, logs, runs, mails)

\* the store after a step, with the throwing calls of the step counted
Becomes(st, thrown) ==
    /\ Len(st.runs) <= MaxRuns
    /\ failures + thrown <= MaxFailures
    /\ tasks' = st.tasks
    /\ logs' = st.logs
    /\ runs' = st.runs
    /\ mails' = st.mails
    /\ failures' = failures + thrown

\* the runs of st that ended in the catch block and were not there before
NewlyCaught(st) == Cardinality(Caught(st.runs)) - Cardinality(Caught(runs))

\* cron.schedule("* * * * *", ...): the callback of the next minute
Tick ==
    /\ ticks < MaxTicks
    /\ ticks' = ticks + 1
    /\ \A r \in InFlight(runs) : ~TimerOverdue(runs[r], now + 1)
    /\ now' = now + 1
    /\ \E readThrows \in BOOLEAN, faults \in [DOMAIN tasks -> Faults({98, 101})] :
          LET st == Scheduler(Current, foreign_keys, readThrows, faults, now + 1)
          IN  /\ readThrows => \A id \in DOMAIN tasks : faults[id] = NoFault
              /\ Becomes(st, NewlyCaught(st) + IF readThrows THEN 1 ELSE 0)
    /\ UNCHANGED <<task_seq, foreign_keys>>

\* the timer of the work step of run r fires
Timer(r) ==
    /\ r \in InFlight(runs)
    /\ \E success \in BOOLEAN, fault \in Faults({129, 136}) :
          LET st == RunBackupFinish(Current, foreign_keys, r, success, fault, now)
          IN  Becomes(st, NewlyCaught(st))
    /\ UNCHANGED <<task_seq, now, ticks, foreign_keys>>

\* a request POST /api/tasks
CreateTask(body, max) ==
    /\ task_seq < max
    /\ \E throws \in BOOLEAN :
          LET out == PostTasks(tasks, task_seq, body, throws)
          IN  /\ tasks' = out.tasks
              /\ task_seq' = out.task_seq
    /\ UNCHANGED <<logs, runs, mails, now, ticks, foreign_keys, failures>>

\* a request DELETE /api/tasks/:id
DeleteTask(id) ==
    /\ \E throws \in BOOLEAN :
          LET out == DeleteTasksId(tasks, logs, foreign_keys, id, throws)
          IN  /\ tasks' = out.tasks
    /\ UNCHANGED <<task_seq, logs, runs, mails, now, ticks, foreign_keys, failures>>

\* a request POST /api/tasks/:id/run
ManualRun(id) ==
    /\ \E lookupThrows \in BOOLEAN, fault \in Faults({98, 101}) :
          LET out == PostTasksIdRun(Current, foreign_keys, id, lookupThrows, fault, now)
          IN  /\ (lookupThrows \/ id \notin DOMAIN tasks) => fault = NoFault
              /\ Becomes(out.st, NewlyCaught(out.st))
    /\ UNCHANGED <<task_seq, now, ticks, foreign_keys>>

\* the process is killed and started again on the same backup.db: the timers of
\* the runs in their work step are lost, the tables are kept
Restart ==
    /\ InFlight(runs) # {}
    /\ failures < MaxFailures
    /\ failures' = failures + 1
    /\ runs' = [r \in DOMAIN runs |->
                  IF runs[r].pc = "work" THEN [runs[r] EXCEPT !.pc = "killed"]
                  ELSE runs[r]]
    /\ UNCHANGED <<tasks, task_seq, logs, mails, now, ticks, foreign_keys>>

\* the ids a request can name: every id ever given out, and one never given out
RequestIds == 1..(MaxTaskId + 1)

Next ==
    \/ Tick
    \/ \E r \in 1..MaxRuns : Timer(r)
    \/ \E body \in TaskBodies : CreateTask(body, MaxTaskId)
    \/ \E id \in RequestIds : DeleteTask(id)
    \/ \E id \in RequestIds : ManualRun(id)
    \/ Restart

Spec == Init /\ [][Next]_vars

\* the scheduler alone: tasks are created, the cron callback runs, timers fire
SchedulerNext ==
    \/ Tick
    \/ \E r \in 1..MaxRuns : Timer(r)
    \/ \E body \in TaskBodies : CreateTask(body, MaxScheduled)

SchedulerSpec == Init /\ [][SchedulerNext]_vars

\* the scheduler with the tasks of the form as well as those of other clients
FormNext ==
    \/ Tick
    \/ \E r \in 1..MaxRuns : Timer(r)
    \/ \E body \in TaskBodies \cup FormBodies : CreateTask(body, MaxScheduled)

FormSpec == Init /\ [][FormNext]_vars

\* the event loop runs a timer that has expired and the cron callback of a
\* minute that has come
FairSpec ==
    /\ Spec
    /\ WF_vars(Tick)
    /\ \A r \in 1..MaxRuns : WF_vars(Timer(r))

(* ------------------------------ vocabulary of the claims -------------- *)
\* the rows run r has written to backup_logs, as their status column, in order
RECURSIVE StatusesOf(_, _)
StatusesOf(l, r) ==
    IF l = <<>> THEN <<>>
    ELSE (IF Head(l).run = r THEN <<Head(l).status>> ELSE <<>>) \o StatusesOf(Tail(l), r)

\* the task ids of the rows run r has written
LogTasksOf(l, r) == { l[i].task_id : i \in { j \in 1..Len(l) : l[j].run = r } }

\* the runs of task id that are in their work step
InFlightOf(rs, id) == { r \in InFlight(rs) : rs[r].task.id = id }

\* the schedule of a row as the specification reads it: a set of weekday names
\* (none when the column holds no array) and a time of day
ScheduleDays(row) ==
    LET v == JSONparse(OrEmptyArray(row.schedule_days))
    IN  IF v.type = "array" THEN { v.items[i] : i \in 1..Len(v.items) } ELSE {}
Malformed(row) == JSONparse(OrEmptyArray(row.schedule_days)).type # "array"
DueAt(row, time) ==
    CurrentDay(time) \in ScheduleDays(row) /\ row.schedule_time = CurrentTime(time)

\* a step in which the cron callback has run, its SELECT returning and no store
\* write throwing
CleanTick == now' # now /\ failures' = failures
\* the calls of runBackup made in a step, and how many of them are for task id
StartedNow == (Len(runs) + 1)..Len(runs')
StartedFor(id) == Cardinality({ r \in StartedNow : runs'[r].task.id = id })
\* the runs that return from their try block in a step
ReturnedNow == { r \in DOMAIN runs : runs[r].pc = "work" /\ runs'[r].pc = "done" }

\* no store write throws
NoFaults == [id \in DOMAIN tasks |-> NoFault]
\* the store after the cron callback of the next minute, its SELECT returning
\* and no store write throwing
AfterNextTick == Scheduler(Current, foreign_keys, FALSE, NoFaults, now + 1)
\* the calls of runBackup made on the way from the store as it stands to st
NewRuns(st) == (Len(runs) + 1)..Len(st.runs)
\* how many of them are for task id
Dispatches(st, id) == Cardinality({ r \in NewRuns(st) : st.runs[r].task.id = id })

(* ------------------------------ C1 ------------------------------------ *)
\* C1: when a call of runBackup returns from its try block, its outcome being
\* success or failure, the task (if its row is still there) has status IDLE and
\* a last_run that is not before the time the call started. A call in which a
\* store write throws leaves by the catch block instead: see C4.
C1_IdleAndStampedOnReturn ==
    [][\A r \in DOMAIN runs :
          (runs[r].pc = "work" /\ runs'[r].pc = "done") =>
             LET id == runs[r].task.id
             IN  /\ runs'[r].outcome \in {"SUCESSO", "FALHA"}
                 /\ id \in DOMAIN tasks' =>
                       /\ tasks'[id].status = "IDLE"
                       /\ tasks'[id].last_run # NullTime
                       /\ tasks'[id].last_run >= runs[r].start]_vars

\* a successful and a failed run have both returned, each leaving its task IDLE
\* with a last_run from after its start
C1_Witness ==
    \E r1, r2 \in DOMAIN runs :
       /\ runs[r1].pc = "done" /\ runs[r1].outcome = "SUCESSO"
       /\ runs[r2].pc = "done" /\ runs[r2].outcome = "FALHA"
       /\ \A r \in {r1, r2} :
             /\ runs[r].task.id \in DOMAIN tasks
             /\ tasks[runs[r].task.id].status = "IDLE"
             /\ tasks[runs[r].task.id].last_run >= runs[r].start

C3_RunningOnlyWhileInFlight ==
    \A id \in DOMAIN tasks :
       /\ tasks[id].status \in {"IDLE", "RUNNING"}
       /\ tasks[id].status = "RUNNING" => InFlightOf(runs, id) # {}

(* ------------------------------ C4 ------------------------------------ *)
\* C4: no store write that throws leaves a task RUNNING for good: as long as
\* the process is not killed, a task that is RUNNING is in time IDLE again (or
\* deleted), the timers and the cron callback being run when they are due.
C4_EventuallyIdle ==
    \A id \in 1..MaxTaskId :
       (id \in DOMAIN tasks /\ tasks[id].status = "RUNNING")
          ~> ( \/ id \notin DOMAIN tasks
               \/ tasks[id].status = "IDLE"
               \/ \E r \in DOMAIN runs : runs[r].pc = "killed" )

(* ------------------------------ C5 ------------------------------------ *)
\* C5: the cron callback of a minute calls runBackup for a stored task exactly
\* when the weekday of that minute is among the task's schedule days and its
\* schedule time is the HH:MM of that minute.
C5_SelectedIffDue ==
    [][CleanTick =>
          \A id \in DOMAIN tasks : StartedFor(id) > 0 <=> DueAt(tasks[id], now')]_vars

(* ------------------------------ C6 ------------------------------------ *)
\* C6: a task whose stored schedule does not parse to an array is skipped by
\* the cron callback, and every other task due in that minute is still run.
C6_MalformedSkippedOthersRun ==
    [][CleanTick =>
          \A bad \in DOMAIN tasks :
             Malformed(tasks[bad]) =>
                /\ StartedFor(bad) = 0
                /\ \A id \in DOMAIN tasks \ {bad} :
                      DueAt(tasks[id], now') => StartedFor(id) >= 1]_vars

(* ------------------------------ C7 ------------------------------------ *)
\* C7: a run request for an id that has no row is answered 404 (500 when the
\* lookup itself throws); either way it calls runBackup for nothing, writes no
\* log row and leaves backup_tasks as it was.
C7_UnknownIdNotFound ==
    \A id \in RequestIds \ DOMAIN tasks :
       \A fault \in Faults({98, 101}) :
          LET found == PostTasksIdRun(Current, foreign_keys, id, FALSE, fault, now)
              threw == PostTasksIdRun(Current, foreign_keys, id, TRUE, fault, now)
          IN  /\ found.status = 404
              /\ threw.status = 500
              /\ found.st = Current
              /\ threw.st = Current

\* the id of a deleted task, whose log rows are still there, can be asked for
C7_Witness ==
    \E id \in RequestIds \ DOMAIN tasks :
       /\ id <= task_seq
       /\ DOMAIN tasks # {}
       /\ \E i \in 1..Len(logs) : logs[i].task_id = id

(* ------------------------------ C8 ------------------------------------ *)
\* C8: the cron callback of a minute calls runBackup once for each task due in
\* that minute and not at all for any other task.
C8_OnceForEachDueTask ==
    [][CleanTick =>
          \A id \in DOMAIN tasks :
             StartedFor(id) = IF DueAt(tasks[id], now') THEN 1 ELSE 0]_vars

(* ------------------------------ C9 ------------------------------------ *)
\* C9: two tasks with the same schedule are both run by the callback of a
\* minute they are due in, each run writes its rows under its own task id, and
\* the return of a run changes neither another task's row nor a row already in
\* the log.
C9_SharedScheduleBothRun ==
    [][/\ CleanTick =>
             \A a, b \in DOMAIN tasks :
                ( /\ a # b
                  /\ tasks[a].schedule_days = tasks[b].schedule_days
                  /\ tasks[a].schedule_time = tasks[b].schedule_time
                  /\ DueAt(tasks[a], now') ) =>
                   /\ StartedFor(a) = 1
                   /\ StartedFor(b) = 1
                   /\ \A r \in StartedNow :
                         /\ StatusesOf(logs', r) = <<"INICIADO">>
                         /\ LogTasksOf(logs', r) = {runs'[r].task.id}
       /\ \A r \in ReturnedNow :
             /\ StatusesOf(logs', r) = <<"INICIADO", runs'[r].outcome>>
             /\ LogTasksOf(logs', r) = {runs[r].task.id}
             /\ SubSeq(logs', 1, Len(logs)) = logs
             /\ \A id \in DOMAIN tasks \ {runs[r].task.id} :
                   id \in DOMAIN tasks' /\ tasks'[id] = tasks[id]]_vars

(* ------------------------------ C10 ----------------------------------- *)
\* C10: a run request for a stored task is answered 200 and starts a run
\* whatever the status of the task, and the cron callback runs the first due
\* row it reads whatever its status: a task that is RUNNING is run again.
C10_RunningTaskRunAgain ==
    \A id \in DOMAIN tasks :
       LET out == PostTasksIdRun(Current, foreign_keys, id, FALSE, NoFault, now)
           r == Len(runs) + 1
       IN  /\ out.status = 200
           /\ Len(out.st.runs) = r
           /\ out.st.runs[r].pc = "work"
           /\ out.st.runs[r].task.id = id
           /\ StatusesOf(out.st.logs, r) = <<"INICIADO">>
           /\ InFlight(out.st.runs) = InFlight(runs) \cup {r}
           /\ ( /\ DueAt(tasks[id], now + 1)
                /\ \A other \in DOMAIN tasks : other < id => ~Malformed(tasks[other]) )
                 => Dispatches(AfterNextTick, id) = 1

\* two runs of one task are in their work step together, each with its own
\* INICIADO row
C10_Witness ==
    \E r1, r2 \in InFlight(runs) :
       /\ r1 # r2
       /\ runs[r1].task.id = runs[r2].task.id
       /\ StatusesOf(logs, r1) = <<"INICIADO">>
       /\ StatusesOf(logs, r2) = <<"INICIADO">>

(* ------------------------------ C11 ----------------------------------- *)
\* C11: whatever the interleaving of create, dispatch, run steps and delete,
\* every row of backup_logs belongs to a task that is stored, and a task that
\* is RUNNING has a run in its work step, which is still to reset it.
C11_NoOrphanNoStuckRunning ==
    /\ \A i \in 1..Len(logs) : logs[i].task_id \in DOMAIN tasks
    /\ \A id \in DOMAIN tasks :
          tasks[id].status = "RUNNING" => InFlightOf(runs, id) # {}

(* ------------------------------ C12 ----------------------------------- *)
\* C12: a delete request for an id that has no row is answered 404, not 200,
\* when the DELETE statement itself does not throw.
C12_DeleteUnknownIdNotFound ==
    \A id \in RequestIds \ DOMAIN tasks :
       DeleteTasksId(tasks, logs, foreign_keys, id, FALSE).status = 404

(* ------------------------------ C13 ----------------------------------- *)
\* the file lists a report column can hold, and the list a report text encodes
ReportValues == { MockFiles(success) : success \in BOOLEAN }
JSONparseFiles(text) == CHOOSE files \in ReportValues : JSONstringifyFiles(files) = text
\* the rows of backup_logs written when a run ended
TerminalRows == { i \in 1..Len(logs) : logs[i].status \in {"SUCESSO", "FALHA"} }

\* C13: the report of every terminal row decodes to a list that is not empty
\* and whose entries are each OK or ERRO (the code's word for ERROR); the
\* report of a FALHA row has an ERRO entry, the report of a SUCESSO row none.
C13_ReportMatchesOutcome ==
    \A i \in TerminalRows :
       /\ ~logs[i].report.null
       /\ LET files == JSONparseFiles(logs[i].report.text)
              errors == { k \in 1..Len(files) : files[k].status = "ERRO" }
          IN  /\ JSONstringifyFiles(files) = logs[i].report.text
              /\ Len(files) > 0
              /\ \A k \in 1..Len(files) : files[k].status \in {"OK", "ERRO"}
              /\ logs[i].status = "FALHA" => errors # {}
              /\ logs[i].status = "SUCESSO" => errors = {}

\* a run has ended in success and another in failure, each with its report
C13_Witness ==
    \E i, j \in TerminalRows :
       /\ logs[i].status = "SUCESSO" /\ ~logs[i].report.null
       /\ logs[j].status = "FALHA" /\ ~logs[j].report.null

(* ------------------------------ C14 ----------------------------------- *)
\* C14: backup_logs is append-only: every step leaves the rows that are there
\* as they are and where they are, and gives every row it adds an id greater
\* than the id of every row before it.
C14_LogsAppendOnly ==
    [][/\ Len(logs') >= Len(logs)
       /\ SubSeq(logs', 1, Len(logs)) = logs
       /\ \A j \in (Len(logs) + 1)..Len(logs') :
             \A i \in 1..(j - 1) : logs'[i].id < logs'[j].id]_vars

\* the log has grown to four rows across ticks, requests and a delete: a task
\* was deleted, and the ids of the rows go up
C14_Witness ==
    /\ Len(logs) = 4
    /\ Cardinality(DOMAIN tasks) < task_seq
    /\ \A i, j \in 1..Len(logs) : i < j => logs[i].id < logs[j].id

(* ------------------------------ C15 ----------------------------------- *)
\* C15: a row of backup_logs has a report exactly when it is a terminal row:
\* the report column of an INICIADO row is NULL, that of a SUCESSO or FALHA
\* row holds the text of a file list.
C15_ReportOnTerminalRowsOnly ==
    \A i \in 1..Len(logs) :
       /\ logs[i].status \in {"INICIADO", "SUCESSO", "FALHA"}
       /\ logs[i].status = "INICIADO" <=> logs[i].report = NullReport
       /\ i \in TerminalRows =>
             logs[i].report \in { Text(JSONstringifyFiles(files)) : files \in ReportValues }

\* one run has written its INICIADO row without a report and its terminal row
\* with one, while another has so far written its INICIADO row alone
C15_Witness ==
    \E r1, r2 \in DOMAIN runs :
       /\ r1 # r2
       /\ runs[r1].pc = "done" /\ runs[r2].pc = "work"
       /\ \E i, j \in 1..Len(logs) :
             /\ logs[i].run = r1 /\ logs[i].status = "INICIADO" /\ logs[i].report.null
             /\ logs[j].run = r1 /\ j \in TerminalRows /\ ~logs[j].report.null
       /\ \E k \in 1..Len(logs) : logs[k].run = r2 /\ logs[k].report.null

(* ------------------------------ C16 ----------------------------------- *)
\* the rows read by the cron callback before the row of task id all parse
ReadBefore(id) == \A other \in DOMAIN tasks : other < id => ~Malformed(tasks[other])

\* C16: a run in its work step holds up neither the cron callback nor another
\* run. In every step that leaves a run of task A in its work step, A's
\* terminal row is not written; if the step is a cron callback, every other
\* task that is due (and read before any malformed row, see C6) is started in
\* it and writes its INICIADO row; and a run request for any other stored task
\* is answered 200 and starts a run that writes its INICIADO row.
C16_RunsDoNotBlock ==
    [][\A a \in InFlight(runs) \cap InFlight(runs') :
          /\ StatusesOf(logs', a) = <<"INICIADO">>
          /\ CleanTick =>
                \A id \in DOMAIN tasks \ {runs[a].task.id} :
                   (DueAt(tasks[id], now') /\ ReadBefore(id)) =>
                      /\ StartedFor(id) = 1
                      /\ \A r \in StartedNow :
                            /\ runs'[r].pc = "work"
                            /\ StatusesOf(logs', r) = <<"INICIADO">>
          /\ \A id \in DOMAIN tasks \ {runs[a].task.id} :
                LET out == PostTasksIdRun(Current, foreign_keys, id, FALSE, NoFault, now)
                    r == Len(runs) + 1
                IN  /\ out.status = 200
                    /\ out.st.runs[r].pc = "work"
                    /\ out.st.runs[r].task.id = id
                    /\ StatusesOf(out.st.logs, r) = <<"INICIADO">>
                    /\ StatusesOf(out.st.logs, a) = <<"INICIADO">>
                    /\ out.st.runs[a] = runs[a]]_vars

\* a run of task A, asked for in the minute before, is still in its work step
\* after the cron callback has started a run of task B, whose INICIADO row
\* follows A's in the log; A's terminal row is still to come
C16_Witness ==
    \E a, b \in InFlight(runs) :
       /\ runs[a].task.id # runs[b].task.id
       /\ runs[a].origin = "manual" /\ runs[a].start < now
       /\ runs[b].origin = "cron" /\ runs[b].start = now
       /\ StatusesOf(logs, a) = <<"INICIADO">>
       /\ \E i, j \in 1..Len(logs) : i < j /\ logs[i].run = a /\ logs[j].run = b

(* ------------------------------ C17 ----------------------------------- *)
\* C17: a run request is answered by what its lookup finds and by nothing
\* else: 500 when the lookup throws, 404 when there is no row, and 200 when
\* there is one, whichever store write of the run throws afterwards. An error
\* answer starts no run; the 200 is given when the run has been started and
\* has not ended (it waits in its work step, or a write of its has thrown).
C17_ErrorAnswerOnlyForLookup ==
    \A id \in RequestIds, lookupThrows \in BOOLEAN, fault \in Faults({98, 101}) :
       LET out == PostTasksIdRun(Current, foreign_keys, id, lookupThrows, fault, now)
           r == Len(runs) + 1
       IN  /\ out.status =
                 IF lookupThrows THEN 500
                 ELSE IF id \in DOMAIN tasks THEN 200 ELSE 404
           /\ out.status # 200 => out.st = Current
           /\ out.status = 200 =>
                 /\ Len(out.st.runs) = r
                 /\ out.st.runs[r].pc = IF fault.at = 0 THEN "work" ELSE "caught"
                 /\ out.st.runs[r].outcome = "none"

\* two requests were answered 200: the run of one threw on a store write, the
\* run of the other ended in FALHA
C17_Witness ==
    \E r1, r2 \in DOMAIN runs :
       /\ runs[r1].origin = "manual" /\ runs[r1].pc = "caught"
       /\ runs[r2].origin = "manual" /\ runs[r2].pc = "done" /\ runs[r2].outcome = "FALHA"

(* ------------------------------ C18 ----------------------------------- *)
\* C18: the id given to a new task is greater than every id given out before,
\* those of deleted tasks included, so that no log row and no run that is
\* there already carries it; the ids given out are never taken back.
C18_IdsNeverReused ==
    [][/\ task_seq' >= task_seq
       /\ \A id \in DOMAIN tasks : id <= task_seq
       /\ \A id \in DOMAIN tasks' \ DOMAIN tasks :
             /\ id > task_seq
             /\ id = task_seq'
             /\ tasks'[id].id = id
             /\ \A i \in 1..Len(logs') : logs'[i].task_id # id
             /\ \A r \in DOMAIN runs' : runs'[r].task.id # id]_vars

\* task 1 has run and has been deleted, its log rows are still there, and the
\* task created after that is task 2
C18_Witness ==
    /\ DOMAIN tasks = {2}
    /\ task_seq = 2
    /\ \E i \in 1..Len(logs) : logs[i].task_id = 1
    /\ \A i \in 1..Len(logs) : logs[i].task_id # 2

(* ------------------------------ C19 ----------------------------------- *)
\* C19: whatever array GET /api/logs answers with, it holds the latest 50 rows
\* of backup_logs (all of them when there are fewer), each with the name of
\* its task, a row appended later always before a row appended earlier. Stated
\* for the logs in which every row's task is still stored: the rows of a
\* deleted task, where the store keeps them, the JOIN leaves out.
C19_LatestFiftyNewestFirst ==
    (\A k \in 1..Len(logs) : logs[k].task_id \in DOMAIN tasks) =>
    \A res \in GetLogs(logs, tasks, runs) :
       /\ Len(res) = IF Len(logs) < LogsLimit THEN Len(logs) ELSE LogsLimit
       /\ \A i, j \in 1..Len(res) : i < j => res[i].id > res[j].id
       /\ \A k \in 1..Len(logs) :
             \/ \E i \in 1..Len(res) : res[i].id = logs[k].id
             \/ \A i \in 1..Len(res) : res[i].id > logs[k].id
       /\ \A i \in 1..Len(res) :
             /\ res[i].task_id \in DOMAIN tasks
             /\ res[i].task_name = tasks[res[i].task_id].name

(* ------------------------------ C20 ----------------------------------- *)
\* the places in the log of the rows run r has written
RowsOf(l, r) == { i \in 1..Len(l) : l[i].run = r }

\* C20: a run goes through its effects in the order RUNNING, INICIADO row, work
\* step, terminal row, IDLE with last_run. Step by step: a run that reaches its
\* work step has by then set its task RUNNING and written its INICIADO row and
\* nothing else; a run that throws before that has written no row; a run that
\* returns appends its terminal row behind its INICIADO row and sets IDLE and
\* last_run in the same step; a run that throws after its work step has not
\* touched last_run, with or without its terminal row written; and a run that
\* has ended writes nothing more.
C20_EffectsInOrder ==
    [][\A r \in DOMAIN runs' :
          LET id == runs'[r].task.id
          IN  IF r \notin DOMAIN runs
              THEN /\ runs'[r].pc \in {"work", "caught"}
                   /\ runs'[r].pc = "work" =>
                         /\ StatusesOf(logs', r) = <<"INICIADO">>
                         /\ id \in DOMAIN tasks' /\ tasks'[id].status = "RUNNING"
                   /\ runs'[r].pc = "caught" => RowsOf(logs', r) = {}
              ELSE IF runs[r].pc = "work" /\ runs'[r].pc = "done"
              THEN /\ StatusesOf(logs', r) = <<"INICIADO", runs'[r].outcome>>
                   /\ RowsOf(logs', r) \ RowsOf(logs, r) = {Len(logs')}
                   /\ \A i \in RowsOf(logs, r) : i < Len(logs')
                   /\ id \in DOMAIN tasks' =>
                         tasks'[id].status = "IDLE" /\ tasks'[id].last_run = now
              ELSE IF runs[r].pc = "work" /\ runs'[r].pc = "caught"
              THEN /\ StatusesOf(logs', r) \in
                         { <<"INICIADO">>, <<"INICIADO", "SUCESSO">>, <<"INICIADO", "FALHA">> }
                   /\ id \in DOMAIN tasks' => tasks'[id].last_run = tasks[id].last_run
              ELSE /\ runs'[r].pc = runs[r].pc \/ runs'[r].pc = "killed"
                   /\ RowsOf(logs', r) = RowsOf(logs, r)]_vars

\* a run has written its terminal row behind its INICIADO row and then thrown
\* on the UPDATE that was to set IDLE and last_run: its task has no last_run
C20_Witness ==
    \E r \in DOMAIN runs :
       /\ runs[r].pc = "caught"
       /\ Len(StatusesOf(logs, r)) = 2
       /\ runs[r].task.id \in DOMAIN tasks
       /\ tasks[runs[r].task.id].last_run = NullTime

(* ------------------------------ C21 ----------------------------------- *)
\* C21: a store write that throws in a call of runBackup is caught in that
\* call. The cron callback in which it happens goes on to start every other
\* task that is due (and read before any malformed row, see C6) and leaves the
\* runs in their work step as they are; once a call has ended in its catch
\* block, the cron callback of the next minute still starts every such task,
\* and a run whose timer fires, no write of its own throwing, still appends
\* its terminal row and returns.
C21_RunErrorStaysInRun ==
    [][/\ (now' # now /\ Caught(runs') # Caught(runs)) =>
             /\ \A id \in DOMAIN tasks :
                   (DueAt(tasks[id], now') /\ ReadBefore(id)) => StartedFor(id) = 1
             /\ \A r \in DOMAIN runs : runs'[r] = runs[r]
       /\ Caught(runs) # {} =>
             /\ \A id \in DOMAIN tasks :
                   (DueAt(tasks[id], now + 1) /\ ReadBefore(id)) =>
                      Dispatches(AfterNextTick, id) = 1
             /\ \A r \in InFlight(runs) :
                   (runs'[r].pc \notin {"work", "killed"} /\ failures' = failures) =>
                      /\ runs'[r].pc = "done"
                      /\ StatusesOf(logs', r) = <<"INICIADO", runs'[r].outcome>>]_vars

\* one cron callback has started two runs: a store write of the first threw,
\* the second has returned all the same, and a later minute has been evaluated
C21_Witness ==
    \E c, r \in DOMAIN runs :
       /\ c < r
       /\ runs[c].origin = "cron" /\ runs[r].origin = "cron"
       /\ runs[c].start = runs[r].start
       /\ runs[c].pc = "caught"
       /\ runs[r].pc = "done"
       /\ now > runs[r].start

(* ------------------------------ C22 ----------------------------------- *)
\* the runs of task id that take a step: they are called, or they go on from
\* their work step to their return or to their catch block
StepsOf(id) ==
    { r \in DOMAIN runs' :
         /\ runs'[r].task.id = id
         /\ \/ r \notin DOMAIN runs
            \/ runs[r].pc = "work" /\ runs'[r].pc \in {"done", "caught"} }
\* the columns of backup_tasks that runBackup never names
Definition(row) ==
    [id |-> row.id, name |-> row.name, source_path |-> row.source_path,
     destination_path |-> row.destination_path,
     destination_type |-> row.destination_type, backup_type |-> row.backup_type,
     schedule_days |-> row.schedule_days, schedule_time |-> row.schedule_time,
     email_notifications |-> row.email_notifications]

\* C22: a step of a run of task T, on its normal path or through its catch
\* block, writes nothing in backup_tasks but T's status and last_run: it adds
\* and removes no row, the other columns of every row stay as they are, and
\* the status and last_run of a task change only in a step of a run of that
\* task.
C22_RunWritesStatusAndLastRunOnly ==
    [][/\ \A id \in DOMAIN tasks \cap DOMAIN tasks' :
             /\ Definition(tasks'[id]) = Definition(tasks[id])
             /\ StepsOf(id) = {} => tasks'[id] = tasks[id]
       /\ (\E id \in RequestIds : StepsOf(id) # {}) => DOMAIN tasks' = DOMAIN tasks]_vars

\* of two stored tasks one has had a run that returned and a run that ended
\* in its catch block; it has its last_run, the other is as it was created
C22_Witness ==
    \E r1, r2 \in DOMAIN runs :
       /\ runs[r1].task.id = runs[r2].task.id
       /\ runs[r1].pc = "done" /\ runs[r2].pc = "caught"
       /\ \E id, other \in DOMAIN tasks :
             /\ id = runs[r1].task.id /\ other # id
             /\ tasks[id].last_run # NullTime
             /\ tasks[other].last_run = NullTime /\ tasks[other].status = "IDLE"

(* ------------------------------ C23 ----------------------------------- *)
\* C23: the cron callback writes nothing of its own. The callback of a minute
\* in which no stored task is due leaves backup_tasks, backup_logs and the
\* notifications as they are and starts no run; the callback of any minute
\* adds and removes no task, leaves the runs there are as they are, changes
\* the row of a task only if it starts a run of it, and adds to the log and to
\* the notifications only what the runs it starts write.
C23_TickOnlyDispatches ==
    [][now' # now =>
          /\ (\A id \in DOMAIN tasks : ~DueAt(tasks[id], now')) =>
                /\ tasks' = tasks /\ logs' = logs /\ mails' = mails /\ runs' = runs
          /\ DOMAIN tasks' = DOMAIN tasks /\ task_seq' = task_seq
          /\ \A r \in DOMAIN runs : runs'[r] = runs[r]
          /\ \A id \in DOMAIN tasks : StartedFor(id) = 0 => tasks'[id] = tasks[id]
          /\ SubSeq(logs', 1, Len(logs)) = logs
          /\ \A i \in (Len(logs) + 1)..Len(logs') : logs'[i].run \in StartedNow
          /\ SubSeq(mails', 1, Len(mails)) = mails
          /\ \A i \in (Len(mails) + 1)..Len(mails') : mails'[i].run \in StartedNow]_vars

\* two minutes have been evaluated with two tasks stored, one of them RUNNING
\* for a run that was asked for, and neither callback has started a run
C23_Witness ==
    /\ ticks = MaxTicks
    /\ Cardinality(DOMAIN tasks) = 2
    /\ \A r \in DOMAIN runs : runs[r].origin = "manual"
    /\ \E id \in DOMAIN tasks : tasks[id].status = "RUNNING"
    /\ Len(logs) = Len(runs)

(* ------------------------------ C24 ----------------------------------- *)
\* the notifications run r has sent, in order
RECURSIVE MailsOf(_, _)
MailsOf(m, r) ==
    IF m = <<>> THEN <<>>
    ELSE (IF Head(m).run = r THEN <<Head(m).kind>> ELSE <<>>) \o MailsOf(Tail(m), r)

\* C24: a run notifies as the flag of the task it was called with says. With
\* the flag off it sends nothing. With the flag on it has sent INICIADO when it
\* is in its work step and not before its INICIADO row is written; when it has
\* returned it has sent, after that, its outcome, followed by the report
\* signal if and only if the outcome is SUCESSO; and a run that ended in its
\* catch block has sent no outcome, having not got to the status reset.
C24_NotificationsFollowFlag ==
    \A r \in DOMAIN runs :
       LET sent == MailsOf(mails, r)
           rows == StatusesOf(logs, r)
       IN  IF runs[r].task.email_notifications = 0 THEN sent = <<>>
           ELSE /\ runs[r].pc \in {"work", "killed"} => sent = <<"INICIADO">>
                /\ (runs[r].pc = "done" /\ runs[r].outcome = "SUCESSO") =>
                      sent = <<"INICIADO", "SUCESSO", "RELATORIO">>
                /\ (runs[r].pc = "done" /\ runs[r].outcome = "FALHA") =>
                      sent = <<"INICIADO", "FALHA">>
                /\ runs[r].pc = "caught" =>
                      sent = IF rows = <<>> THEN <<>> ELSE <<"INICIADO">>

\* a run of a task with the flag on has returned in success and sent its three
\* notifications; a run of a task with the flag off has returned and sent none
C24_Witness ==
    \E r1, r2 \in DOMAIN runs :
       /\ runs[r1].pc = "done" /\ runs[r1].task.email_notifications = 1
       /\ MailsOf(mails, r1) = <<"INICIADO", "SUCESSO", "RELATORIO">>
       /\ runs[r2].pc = "done" /\ runs[r2].task.email_notifications = 0
       /\ MailsOf(mails, r2) = <<>>
       /\ Len(mails) = 3

(* ------------------------------ C25 ----------------------------------- *)
\* C25: a stored task that has a run in its work step is RUNNING. Stated for
\* the states reached with no store write throwing and the process not killed.
C25_RunningWhileAnyRunInFlight ==
    failures = 0 =>
       \A id \in DOMAIN tasks :
          InFlightOf(runs, id) # {} => tasks[id].status = "RUNNING"

(* ------------------------------ C26 ----------------------------------- *)
\* the rows of task id in the log: the INICIADO rows and the terminal rows
StartedRows(id) ==
    { i \in 1..Len(logs) : logs[i].task_id = id /\ logs[i].status = "INICIADO" }
EndedRows(id) == { i \in TerminalRows : logs[i].task_id = id }

\* C26: for every task id ever asked for, the log holds no more terminal rows
\* than INICIADO rows, and, as long as no call of runBackup has ended in its
\* catch block, as many more INICIADO rows than terminal rows as there are
\* runs of that id in their work step.
C26_StartedMinusEndedIsInFlight ==
    \A id \in RequestIds :
       /\ Cardinality(EndedRows(id)) <= Cardinality(StartedRows(id))
       /\ Caught(runs) = {} =>
             Cardinality(StartedRows(id)) - Cardinality(EndedRows(id))
                = Cardinality(InFlightOf(runs, id))

(* ------------------------------ C27 ----------------------------------- *)
\* the weekday the i-th button of the day picker stands for (Segunda-feira is
\* Monday), as the cron callback names it
WeekdayOfButton(i) == WeekdayLong[(i % 7) + 1]
\* a row created through the form
FromForm(row) == \E b \in FormBodies : row.schedule_days = JSONstringify(b.schedule_days)
\* a row whose picked days include the weekday of minute t, at its time
PickedFor(row, t) ==
    /\ row.schedule_time = CurrentTime(t)
    /\ \E i \in 1..Len(DAYS) :
          /\ WeekdayOfButton(i) = CurrentDay(t)
          /\ Includes(JSONparse(row.schedule_days).items, DAYS[i])

\* C27: a task created through the form with the button of weekday D picked
\* and time HH:MM is started by the cron callback of HH:MM on a weekday D
\* (the task being read before any malformed row, see C6).
C27_FormDaysAreMatched ==
    [][CleanTick =>
          \A id \in DOMAIN tasks :
             (FromForm(tasks[id]) /\ PickedFor(tasks[id], now') /\ ReadBefore(id)) =>
                StartedFor(id) = 1]_vars

(* ------------------------------ C28 ----------------------------------- *)
\* C28: a task that has been deleted stays deleted. No step brings back the
\* row of an id that was given out and is no longer stored, and a step of a run
\* of such a task (the run was in flight when the task was deleted: its
\* terminal row, its status reset, the reset of its catch block) leaves
\* backup_tasks as it is.
C28_DeletedTaskStaysDeleted ==
    [][\A id \in 1..task_seq :
          id \notin DOMAIN tasks =>
             /\ id \notin DOMAIN tasks'
             /\ StepsOf(id) # {} => (tasks' = tasks /\ task_seq' = task_seq)]_vars

\* a task is gone while a run of it is still in flight, and another run of it
\* has written its terminal row and returned
C28_Witness ==
    \E r1, r2 \in DOMAIN runs :
       /\ runs[r1].task.id = runs[r2].task.id
       /\ runs[r1].task.id \notin DOMAIN tasks
       /\ runs[r1].pc = "work"
       /\ runs[r2].pc = "done"
       /\ \E i \in 1..Len(logs) :
             logs[i].run = r2 /\ logs[i].status \in {"SUCESSO", "FALHA"}

====
